---- MODULE Spec2Model ----
(***************************************************************************)
(* A model of AutoStop.py (CowboyWill/AutoStop): the position model         *)
(* (numFormat, setPrecision, setTarget, setActual), the motion controller   *)
(* (MoveMotor and the Tk timer that re-arms it), the command handlers of    *)
(* AutoStopApp and the two keypads of KeypadFrame.                          *)
(*                                                                         *)
(* Distances are Python floats in the source.  Here a distance is an       *)
(* integer count of units of 1/SCALE (1/1600): one motor step (1/64) is 25 *)
(* units, one hundredth (0.01) is 16 units, so every value the handlers    *)
(* build from sixty-fourths and hundredths is exact.  The arithmetic is    *)
(* therefore exact decimal arithmetic; binary rounding of 0.1 and 0.01 is  *)
(* not modelled.                                                           *)
(***************************************************************************)
EXTENDS Integers, Sequences, FiniteSets, TLC

VARIABLES
    UNITS,                  \* 'MM' or 'IN', read once from the ini file
    PRECISION,              \* 4, 8, 16, 32 or 64
    PARKLOCATION,           \* farthest location, in units
    JOGVALUES,              \* the three jog increments, in units
    MOTORMOVEDEACHSTEP,     \* distance moved by one motor step, in units
    CurrentJogValue,        \* index of the selected jog button
    ActualVal, ActualValStr, ActualNumeratorStr, ActualDenominatorStr,
    TargetVal, TargetValStr, TargetNumeratorStr, TargetDenominatorStr,
    DecimalMode,            \* keypad entry mode (a module global in the source)
    Moving,                 \* "no", "lft" or "rgt"
    timers,                 \* number of pending Root.after(.., MoveMotor) callbacks
    keypad,                 \* "closed", or the layout of the open KeypadFrame
    newKeyLabels,           \* labels of the relabelled keys of a fraction layout
    last,                   \* the handler that ran last
    err                     \* the error dialogs the last handler showed

config == <<UNITS, PRECISION, PARKLOCATION, JOGVALUES, MOTORMOVEDEACHSTEP>>
actualVars == <<ActualVal, ActualValStr, ActualNumeratorStr, ActualDenominatorStr>>
targetVars == <<TargetVal, TargetValStr, TargetNumeratorStr, TargetDenominatorStr>>
keypadVars == <<DecimalMode, keypad, newKeyLabels>>
vars == <<config, CurrentJogValue, actualVars, targetVars, keypadVars,
          Moving, timers, last, err>>

----------------------------------------------------------------------------
(* Units and bounds *)

\* units per 1.0: the least scale in which 1/64 and 1/100 are both whole
SCALE == 64 * 25

\* the value the source pins the step to (1.0/64.0), in units
DEBUGSTEP == SCALE \div 64

Inch(n, d) == (n * SCALE) \div d

\* at most this many MoveMotor callbacks are pending at once
MaxTimers == 2

----------------------------------------------------------------------------
(* Pure functions *)

\* Python int() of a float: truncation toward zero
int(x) == IF x >= 0 THEN (x \div SCALE) * SCALE ELSE -(((-x) \div SCALE) * SCALE)

RECURSIVE GCD(_, _)
GCD(a, b) == IF b = 0 THEN a ELSE GCD(b, a % b)

\* round half to even of n/d, n >= 0 (what '.2f' does with an exact tie)
RoundHalfEven(n, d) ==
    LET q == n \div d
        r == n % d
    IN  IF 2 * r < d THEN q
        ELSE IF 2 * r > d THEN q + 1
        ELSE IF q % 2 = 0 THEN q ELSE q + 1

\* Python 2 round(x, 0) of n/d, n >= 0: half away from zero
RoundHalfUp(n, d) == (2 * n + d) \div (2 * d)

\* numFormat: the digits the display string shows. MM: the value to two
\* decimals, as a count of hundredths; IN: the whole number only.
numFormat_NoRound(units, num) ==
    IF units = "MM" THEN <<"MM", (num * 100) \div SCALE>>
    ELSE <<"IN", num \div SCALE>>

numFormat(units, num) ==
    IF units = "MM" THEN <<"MM", RoundHalfEven(num * 100, SCALE)>>
    ELSE <<"IN", int(num) \div SCALE>>

\* setPrecision with the fraction left as rounded (8/16 instead of 1/2)
setPrecision_Unreduced(precision, value) ==
    LET decimal == value - int(value)
    IN  IF decimal = 0 THEN <<0, precision>>
        ELSE <<RoundHalfUp(decimal * precision, SCALE), precision>>

\* setPrecision with the fraction truncated instead of rounded
setPrecision_Truncating(precision, value) ==
    LET decimal == value - int(value)
        n == (decimal * precision) \div SCALE
        g == GCD(n, precision)
    IN  IF decimal = 0 THEN <<0, precision>>
        ELSE <<n \div g, precision \div g>>

\* setPrecision: numerator and denominator of the fractional part of value,
\* rounded to 1/precision and reduced by Fraction()
setPrecision(precision, value) ==
    LET decimal == value - int(value)
        n == RoundHalfUp(decimal * precision, SCALE)
        g == GCD(n, precision)
    IN  IF decimal = 0 THEN <<0, precision>>
        ELSE <<n \div g, precision \div g>>

\* the two limit checks of setTarget, without the upper one
ClampTarget_NoUpper(value, park) == IF value <= 0 THEN 0 ELSE value

\* the two limit checks of setTarget, without the lower one
ClampTarget_NoLower(value, park) == IF value >= park THEN park ELSE value

\* the two limit checks of setTarget
ClampTarget(value, park) ==
    LET v == IF value <= 0 THEN 0 ELSE value
    IN  IF v >= park THEN park ELSE v

----------------------------------------------------------------------------
(* Position state *)

\* setTarget that stores the value and leaves the display as it was
setTargetResult_Stale(value, units, precision, park, tv) ==
    <<ClampTarget(value, park), tv[2], tv[3], tv[4]>>

\* setTarget that regenerates the display before clamping
setTargetResult_ShowsRaw(value, units, precision, park, tv) ==
    <<ClampTarget(value, park), numFormat(units, value),
      setPrecision(precision, value)[1], setPrecision(precision, value)[2]>>

\* What setTarget(value) leaves in <<TargetVal, TargetValStr,
\* TargetNumeratorStr, TargetDenominatorStr>>, found as tv: clamp, return when
\* nothing changes, else store the value and regenerate its display string
\* and, in IN mode only, its fraction.
setTargetResult(value, units, precision, park, tv) ==
    LET v == ClampTarget(value, park)
    IN  IF v = tv[1] THEN tv
        ELSE <<v, numFormat(units, v),
               IF units = "IN" THEN setPrecision(precision, v)[1] ELSE tv[3],
               IF units = "IN" THEN setPrecision(precision, v)[2] ELSE tv[4]>>

setTarget(value) ==
    LET r == setTargetResult(value, UNITS, PRECISION, PARKLOCATION, targetVars)
    IN  /\ TargetVal' = r[1]
        /\ TargetValStr' = r[2]
        /\ TargetNumeratorStr' = r[3]
        /\ TargetDenominatorStr' = r[4]

\* setActual that stores the value and leaves the display as it was
setActualResult_Stale(value, units, precision, av) ==
    <<value, av[2], av[3], av[4]>>

\* What setActual(value) leaves in <<ActualVal, ActualValStr,
\* ActualNumeratorStr, ActualDenominatorStr>>, found as av: no clamping.
setActualResult(value, units, precision, av) ==
    <<value, numFormat(units, value),
      IF units = "IN" THEN setPrecision(precision, value)[1] ELSE av[3],
      IF units = "IN" THEN setPrecision(precision, value)[2] ELSE av[4]>>

setActual(value) ==
    LET r == setActualResult(value, UNITS, PRECISION, actualVars)
    IN  /\ ActualVal' = r[1]
        /\ ActualValStr' = r[2]
        /\ ActualNumeratorStr' = r[3]
        /\ ActualDenominatorStr' = r[4]

----------------------------------------------------------------------------
(* Motion controller *)

\* the step test of the 'rgt' branch without its target bound
StepRightOK_NoTarget(newActual, target) == newActual >= 0

\* the step test of the 'rgt' branch with the target comparison reversed
StepRightOK_Reversed(newActual, target) == newActual >= 0 /\ newActual <= target

\* the step test of the 'rgt' branch
StepRightOK(newActual, target) == newActual >= 0 /\ newActual >= target

\* the step test of the 'lft' branch without its target bound
StepLeftOK_NoTarget(newActual, target, park) == newActual <= park

\* the step test of the 'lft' branch with strict bounds
StepLeftOK_Strict(newActual, target, park) ==
    newActual < park /\ newActual < target

\* the step test of the 'lft' branch with a strict travel bound
StepLeftOK_ParkExclusive(newActual, target, park) ==
    newActual < park /\ newActual <= target

\* the step test of the 'lft' branch
StepLeftOK(newActual, target, park) ==
    newActual <= park /\ newActual <= target

\* One run of MoveMotor's body that moves Actual onto Target when a whole
\* step would pass it
MotorStep_SnapsToTarget(moving, actual, target, park, step) ==
    IF moving = "no"
    THEN [Moving |-> "no", ActualVal |-> actual, stepped |-> FALSE, rearm |-> FALSE]
    ELSE IF moving = "rgt"
    THEN IF StepRightOK(actual - step, target)
         THEN [Moving |-> "rgt", ActualVal |-> actual - step,
               stepped |-> TRUE, rearm |-> TRUE]
         ELSE [Moving |-> "no", ActualVal |-> IF actual > target THEN target ELSE actual,
               stepped |-> actual > target, rearm |-> TRUE]
    ELSE IF StepLeftOK(actual + step, target, park)
         THEN [Moving |-> "lft", ActualVal |-> actual + step,
               stepped |-> TRUE, rearm |-> TRUE]
         ELSE [Moving |-> "no", ActualVal |-> IF actual < target THEN target ELSE actual,
               stepped |-> actual < target, rearm |-> TRUE]

\* One run of MoveMotor's body that re-arms the callback even when it finds
\* the latch at 'no'
MotorStep_IdleRearms(moving, actual, target, park, step) ==
    IF moving = "no"
    THEN [Moving |-> "no", ActualVal |-> actual, stepped |-> FALSE, rearm |-> TRUE]
    ELSE IF moving = "rgt"
    THEN IF StepRightOK(actual - step, target)
         THEN [Moving |-> "rgt", ActualVal |-> actual - step,
               stepped |-> TRUE, rearm |-> TRUE]
         ELSE [Moving |-> "no", ActualVal |-> actual,
               stepped |-> FALSE, rearm |-> TRUE]
    ELSE IF StepLeftOK(actual + step, target, park)
         THEN [Moving |-> "lft", ActualVal |-> actual + step,
               stepped |-> TRUE, rearm |-> TRUE]
         ELSE [Moving |-> "no", ActualVal |-> actual,
               stepped |-> FALSE, rearm |-> TRUE]

\* One run of MoveMotor's body with Moving already set to moving:
\* the new latch, the new Actual, whether setActual ran, whether
\* Root.after re-armed the callback.
MotorStep(moving, actual, target, park, step) ==
    IF moving = "no"
    THEN [Moving |-> "no", ActualVal |-> actual, stepped |-> FALSE, rearm |-> FALSE]
    ELSE IF moving = "rgt"
    THEN IF StepRightOK(actual - step, target)
         THEN [Moving |-> "rgt", ActualVal |-> actual - step,
               stepped |-> TRUE, rearm |-> TRUE]
         ELSE [Moving |-> "no", ActualVal |-> actual,
               stepped |-> FALSE, rearm |-> TRUE]
    ELSE IF StepLeftOK(actual + step, target, park)
         THEN [Moving |-> "lft", ActualVal |-> actual + step,
               stepped |-> TRUE, rearm |-> TRUE]
         ELSE [Moving |-> "no", ActualVal |-> actual,
               stepped |-> FALSE, rearm |-> TRUE]

\* MoveMotor(dir) keeping a latch that is already set instead of taking dir
MoveMotor_KeepsLatch(dir, target, fired) ==
    LET r == MotorStep(IF Moving # "no" THEN Moving ELSE dir,
                       ActualVal, target, PARKLOCATION, MOTORMOVEDEACHSTEP)
    IN  /\ Moving' = r.Moving
        /\ IF r.stepped THEN setActual(r.ActualVal) ELSE UNCHANGED actualVars
        /\ timers' = (timers - fired) + (IF r.rearm THEN 1 ELSE 0)

\* MoveMotor(dir) calling Root.after only after a step was taken
MoveMotor_RearmOnStep(dir, target, fired) ==
    LET r == MotorStep(IF dir # "no" THEN dir ELSE Moving,
                       ActualVal, target, PARKLOCATION, MOTORMOVEDEACHSTEP)
    IN  /\ Moving' = r.Moving
        /\ IF r.stepped THEN setActual(r.ActualVal) ELSE UNCHANGED actualVars
        /\ timers' = (timers - fired) + (IF r.stepped THEN 1 ELSE 0)

\* MoveMotor(dir) run against Target value target; fired is 1 when the call is
\* a timer callback (which consumes one pending timer) and 0 when a handler
\* calls it directly.
MoveMotor(dir, target, fired) ==
    LET r == MotorStep(IF dir # "no" THEN dir ELSE Moving,
                       ActualVal, target, PARKLOCATION, MOTORMOVEDEACHSTEP)
    IN  /\ Moving' = r.Moving
        /\ IF r.stepped THEN setActual(r.ActualVal) ELSE UNCHANGED actualVars
        /\ timers' = (timers - fired) + (IF r.rearm THEN 1 ELSE 0)

Op(name) == name

\* the timer callback: Root.after(.., MoveMotor) fires
Tick ==
    /\ timers > 0
    /\ MoveMotor("no", TargetVal, 1)
    /\ last' = Op("MoveMotor")
    /\ err' = {}
    /\ UNCHANGED <<config, CurrentJogValue, targetVars, keypadVars>>

----------------------------------------------------------------------------
(* Command handlers of AutoStopApp *)

\* JOGVALUES[CurrentJogValue] with Python's indexing: -1..-3 count from the
\* end, anything else outside 0..2 raises IndexError
JogIndexOK == CurrentJogValue \in -3..2
\* the jog value with the selection ignored
JogValue_First == JOGVALUES[1]

JogValue == JOGVALUES[IF CurrentJogValue < 0 THEN CurrentJogValue + 4
                      ELSE CurrentJogValue + 1]

goHome ==
    /\ timers < MaxTimers
    /\ setTarget(0)
    /\ MoveMotor("rgt", 0, 0)
    /\ last' = Op("goHome")
    /\ err' = {}
    /\ UNCHANGED <<config, CurrentJogValue, keypadVars>>

goPark ==
    /\ timers < MaxTimers
    /\ setTarget(PARKLOCATION)
    /\ MoveMotor("lft", ClampTarget(PARKLOCATION, PARKLOCATION), 0)
    /\ last' = Op("goPark")
    /\ err' = {}
    /\ UNCHANGED <<config, CurrentJogValue, keypadVars>>

moveLeft ==
    /\ timers < MaxTimers
    /\ IF JogIndexOK
       THEN /\ setTarget(TargetVal + JogValue)
            /\ MoveMotor("lft", ClampTarget(TargetVal + JogValue, PARKLOCATION), 0)
            /\ err' = {}
       ELSE /\ UNCHANGED <<targetVars, actualVars, Moving, timers>>
            /\ err' = {"IndexError"}
    /\ last' = Op("moveLeft")
    /\ UNCHANGED <<config, CurrentJogValue, keypadVars>>

moveRight ==
    /\ timers < MaxTimers
    /\ IF JogIndexOK
       THEN /\ setTarget(ActualVal - JogValue)
            /\ MoveMotor("rgt", ClampTarget(ActualVal - JogValue, PARKLOCATION), 0)
            /\ err' = {}
       ELSE /\ UNCHANGED <<targetVars, actualVars, Moving, timers>>
            /\ err' = {"IndexError"}
    /\ last' = Op("moveRight")
    /\ UNCHANGED <<config, CurrentJogValue, keypadVars>>

\* jogButtonPressed: JogBtn[CurrentJogValue] raises IndexError before the
\* assignment when the configured start value is outside the list
jogButtonPressed(jogButton) ==
    /\ IF CurrentJogValue = jogButton
       THEN UNCHANGED CurrentJogValue /\ err' = {}
       ELSE IF JogIndexOK
       THEN CurrentJogValue' = jogButton /\ err' = {}
       ELSE UNCHANGED CurrentJogValue /\ err' = {"IndexError"}
    /\ last' = Op("jogButtonPressed")
    /\ UNCHANGED <<config, actualVars, targetVars, keypadVars, Moving, timers>>

----------------------------------------------------------------------------
(* KeypadFrame *)

Range(f) == {f[i] : i \in DOMAIN f}

\* the decimal labels int() accepts on a key
NumberLabels == {ToString(n) : n \in 0..63}
LabelValue == [label \in NumberLabels |-> CHOOSE n \in 0..63 : ToString(n) = label]
IntOf(label) == LabelValue[label]

\* odd numerators lo, lo+2, .., hi as key labels
OddLabels(lo, hi) == [i \in 1..((hi - lo) \div 2 + 1) |-> ToString(lo + 2 * (i - 1))]

\* btnList of KeypadFrame.__init__ (labels stripped)
btnList ==
    IF UNITS = "MM"
    THEN <<"1", "2", "3", "Bksp", "4", "5", "6", "C", "7", "8", "9", ".",
           "0", "Enter", "">>
    ELSE <<"1", "2", "3", "C", "Bksp", "4", "5", "6", "1/2", "x/4",
           "7", "8", "9",
           IF PRECISION > 4 THEN "x/8" ELSE "",
           IF PRECISION > 8 THEN "x/16" ELSE "",
           "0", "Enter",
           IF PRECISION > 16 THEN "x/32" ELSE "",
           IF PRECISION > 32 THEN "x/64" ELSE "">>

\* padNum: the label of the key pressed comes from btnList, or in IN mode
\* from newKeyLabels while a fraction layout is shown (only the relabelled
\* buttons stay on the grid)
KeyLabels ==
    IF UNITS = "MM" \/ keypad = "KeyPad" THEN Range(btnList) ELSE Range(newKeyLabels)

\* openKeypad: a new KeypadFrame; DecimalMode is a module global and is not
\* touched.  One keypad window is open at a time in this model.
openKeypad ==
    /\ keypad = "closed"
    /\ keypad' = "KeyPad"
    /\ newKeyLabels' = <<>>
    /\ last' = Op("openKeypad")
    /\ err' = {}
    /\ UNCHANGED <<config, CurrentJogValue, actualVars, targetVars, DecimalMode,
                   Moving, timers>>

\* What a key handler has done when it reaches the limit check (or raises):
\* new = self.newTargetVal, dm = DecimalMode, errs = dialogs shown so far,
\* raised = an exception ended the handler, close = onClose ran,
\* pad/labels = self.keypad and self.newKeyLabels.  redrawButtons and
\* destroy leave self.newKeyLabels as it was; it is not read again before a
\* fraction key overwrites it, so the model empties it there.
KeyResult(new, dm, errs, raised, close, pad, labels) ==
    [new |-> new, dm |-> dm, errs |-> errs, raised |-> raised, close |-> close,
     pad |-> pad, labels |-> labels]

\* the digit branch of add_MM_num with the hundredths digit weighed as tenths
MMDigitValue_TenthsTwice(target, newNum, dm) ==
    CASE dm = 0 -> int(target) * 10 + newNum * SCALE
      [] dm = 1 -> target + newNum * (SCALE \div 10)
      [] OTHER -> target + newNum * (SCALE \div 10)

\* the digit branch of add_MM_num: self.newTargetVal for DecimalMode 0, 1, 2
MMDigitValue(target, newNum, dm) ==
    CASE dm = 0 -> int(target) * 10 + newNum * SCALE
      [] dm = 1 -> target + newNum * (SCALE \div 10)
      [] OTHER -> target + newNum * (SCALE \div 100)

\* the digit branch of add_MM_num: DecimalMode after the digit
MMDigitMode(dm) == IF dm = 0 THEN 0 ELSE dm + 1

\* the digit branch of add_MM_num taking a digit in every DecimalMode
MMDigitTaken_Always(dm) == TRUE

\* the digit branch of add_MM_num: DecimalMode 0, 1, 2 take a digit, the
\* final else shows 'Only two decimals allowed'
MMDigitTaken(dm) == dm \in {0, 1, 2}

\* add_MM_num up to the limit check
add_MM_num(key, target, dm) ==
    LET same(n, d) == KeyResult(n, d, {}, FALSE, FALSE, keypad, newKeyLabels)
    IN  CASE key = "." -> same(target, IF dm = 0 THEN 1 ELSE dm)
          [] key = "Enter" ->
                KeyResult(target, dm, {}, FALSE, TRUE, "closed", <<>>)
          [] key = "" -> same(target, dm)
          [] key = "C" -> same(0, 0)
          [] key = "Bksp" ->
                CASE dm = 0 -> same(int(target \div 10), 0)
                  \* self.decimalKey does not exist: AttributeError after
                  \* DecimalMode = 0, before the limit check and setTarget
                  [] dm = 1 -> KeyResult(int(target \div 10), 0, {"AttributeError"},
                                         TRUE, FALSE, keypad, newKeyLabels)
                  [] dm = 2 -> same(int(target), 1)
                  [] dm = 3 -> same(int(target * 10) \div 10, 2)
                  [] OTHER -> same(target, dm)
          [] OTHER ->
                LET newNum == IntOf(key)
                IN  IF MMDigitTaken(dm)
                    THEN same(MMDigitValue(target, newNum, dm), MMDigitMode(dm))
                    ELSE KeyResult(target, dm, {"TwoDecimals"}, FALSE,
                                   FALSE, keypad, newKeyLabels)

\* self.keypad of a fraction layout
LayoutName(d) ==
    CASE d = 4 -> "x/4" [] d = 8 -> "x/8" [] d = 16 -> "x/16"
      [] d = 32 -> "x/32" [] OTHER -> "x/64"

\* the Bksp branch of add_IN_num dividing by 10 in every DecimalMode
INBackspace_AlwaysShifts(target, dm) == int(target \div 10)

\* the Bksp branch of add_IN_num: self.newTargetVal
INBackspace(target, dm) ==
    IF dm = 0 THEN int(target \div 10) ELSE int(target)

\* add_IN_num up to the limit check
add_IN_num(key, target, dm) ==
    LET same(n, d) == KeyResult(n, d, {}, FALSE, FALSE, keypad, newKeyLabels)
        frac(d, labels) == KeyResult(target, d, {}, FALSE, FALSE,
                                     LayoutName(d), labels)
        redrawn(n, d) == KeyResult(n, d, {}, FALSE, FALSE, "KeyPad", <<>>)
    IN  CASE key = "1/2" -> same(int(target) + SCALE \div 2, dm)
          [] key = "x/4" -> frac(4, OddLabels(1, 3) \o <<"C">>)
          [] key = "x/8" -> frac(8, OddLabels(1, 7) \o <<"C">>)
          [] key = "x/16" -> frac(16, OddLabels(1, 15) \o <<"C">>)
          [] key = "x/32" -> frac(32, OddLabels(1, 31) \o <<"C">>)
          [] key \in {"x/64", "Prev"} -> frac(64, OddLabels(1, 31) \o <<"Next", "C">>)
          [] key = "Next" -> frac(64, OddLabels(33, 63) \o <<"Prev", "C">>)
          [] key = "Enter" ->
                KeyResult(target, dm, {}, FALSE, TRUE, "closed", <<>>)
          [] key = "" -> same(target, dm)
          [] key = "C" -> redrawn(0, 0)
          [] key = "Bksp" -> same(INBackspace(target, dm), 0)
          [] OTHER ->
                LET newNum == IntOf(key)
                IN  IF dm = 0 THEN same(target * 10 + newNum * SCALE, 0)
                    ELSE IF dm \in {4, 8, 16, 32, 64}
                    THEN redrawn(int(target) + (newNum * SCALE) \div dm, dm)
                    ELSE KeyResult(target, dm, {"InvalidCode"}, FALSE, FALSE,
                                   keypad, newKeyLabels)

\* the limit check that ends both handlers, accepting a value equal to Park
KeyLimitExceeded_Off(newTargetVal, park) == newTargetVal > park

\* the limit check that ends both handlers
KeyLimitExceeded(newTargetVal, park) == newTargetVal >= park

\* onClose that only closes the window
onClose_NoMotion == UNCHANGED <<actualVars, Moving, timers>>

\* onClose after the window is destroyed: start moving toward Target
onClose ==
    IF TargetVal > ActualVal THEN MoveMotor("lft", TargetVal, 0)
    ELSE IF TargetVal < ActualVal THEN MoveMotor("rgt", TargetVal, 0)
    ELSE UNCHANGED <<actualVars, Moving, timers>>

\* padNum(key): the whole key handler
padNum(key) ==
    /\ keypad # "closed"
    /\ key \in KeyLabels
    /\ key = "Enter" => timers < MaxTimers
    /\ LET r == IF UNITS = "MM" THEN add_MM_num(key, TargetVal, DecimalMode)
                ELSE add_IN_num(key, TargetVal, DecimalMode)
           exceeded == ~r.raised /\ KeyLimitExceeded(r.new, PARKLOCATION)
       IN  /\ DecimalMode' = r.dm
           /\ keypad' = r.pad
           /\ newKeyLabels' = r.labels
           /\ IF r.close THEN onClose ELSE UNCHANGED <<actualVars, Moving, timers>>
           /\ IF r.raised \/ exceeded \/ TargetVal = r.new
              THEN UNCHANGED targetVars
              ELSE setTarget(r.new)
           /\ err' = r.errs \cup (IF exceeded THEN {"LimitExceeded"} ELSE {})
    /\ last' = Op("padNum")
    /\ UNCHANGED <<config, CurrentJogValue>>

----------------------------------------------------------------------------
(* Start-up *)

\* PRECISION as read: any value outside the list becomes 16
PrecisionRead(p) == IF p \in {4, 8, 16, 32, 64} THEN p ELSE 16

\* a jog value as read: in IN mode a value that is no multiple of 1/16
\* becomes 1/16
JogRead(units, j) ==
    IF units = "IN" /\ j % (SCALE \div 16) # 0 THEN SCALE \div 16 ELSE j

\* The state when mainloop starts: module initialisation followed by
\* AutoStopApp.__init__, which arms the first MoveMotor callback.
\* TargetVal = 1/PRECISION is Python 2 integer division: 0.
Start(units, precision, park, jogs, step, startJogValue) ==
    /\ UNITS = units
    /\ PRECISION = PrecisionRead(precision)
    /\ PARKLOCATION = park
    /\ JOGVALUES = [i \in 1..3 |-> JogRead(units, jogs[i])]
    /\ MOTORMOVEDEACHSTEP = step
    /\ CurrentJogValue = startJogValue - 1
    /\ ActualVal = 0
    /\ ActualValStr = numFormat(units, 0)
    /\ ActualNumeratorStr = setPrecision(PrecisionRead(precision), 0)[1]
    /\ ActualDenominatorStr = setPrecision(PrecisionRead(precision), 0)[2]
    /\ TargetVal = 1 \div PrecisionRead(precision)
    /\ TargetValStr = numFormat(units, 1 \div PrecisionRead(precision))
    /\ TargetNumeratorStr =
           setPrecision(PrecisionRead(precision), 1 \div PrecisionRead(precision))[1]
    /\ TargetDenominatorStr =
           setPrecision(PrecisionRead(precision), 1 \div PrecisionRead(precision))[2]
    /\ DecimalMode = 0
    /\ Moving = "no"
    /\ timers = 1
    /\ keypad = "closed"
    /\ newKeyLabels = <<>>
    /\ last = Op("init")
    /\ err = {}

\* The configurations of the main specification.  The travel is short (1/8
\* inch, 0.07 mm) so that every interleaving of commands, keys and ticks is
\* explored; StartJogValue 0 and 5 give CurrentJogValue -1 and 4.
Configs ==
    {<<"IN", 16, Inch(1, 8), <<Inch(1, 16), Inch(1, 8), Inch(3, 32)>>, 1>>}
    \cup {<<"MM", 16, Inch(7, 100), <<Inch(1, 100), Inch(5, 100), SCALE>>, s>> :
             s \in {0, 5}}

Init ==
    \E c \in Configs : Start(c[1], c[2], c[3], c[4], DEBUGSTEP, c[5])

Key == \E key \in KeyLabels : padNum(key)

Jog == \E b \in 0..2 : jogButtonPressed(b)

Next ==
    \/ Tick
    \/ goHome
    \/ goPark
    \/ moveLeft
    \/ moveRight
    \/ Jog
    \/ openKeypad
    \/ Key

Spec == Init /\ [][Next]_vars

\* The timer callback fires whenever one is pending: Tk's mainloop runs every
\* due Root.after callback.
FairSpec == Spec /\ WF_vars(Tick)

\* The keypad specification: every key of every layout (PRECISION 64 shows
\* all the fraction keys), with Park, Enter and the ticks, and no jogging.
KeypadConfigs ==
    {<<"IN", 64, Inch(1, 8), <<Inch(1, 16), Inch(1, 8), Inch(3, 32)>>, 1>>,
     <<"MM", 16, Inch(12, 100), <<Inch(1, 100), Inch(5, 100), SCALE>>, 1>>}

InitKeypad ==
    \E c \in KeypadConfigs : Start(c[1], c[2], c[3], c[4], DEBUGSTEP, c[5])

NextKeypad ==
    \/ Tick
    \/ goPark
    \/ openKeypad
    \/ Key

SpecKeypad == InitKeypad /\ [][NextKeypad]_vars

\* The travel specification: the envelope [0, 96] with jog values 10 and
\* 200.  One command (Park, or jog left by the selected value) is given while
\* the head rests at Actual = 0, and then only the ticks run.
TravelConfigs ==
    {<<u, 16, 96 * SCALE, <<10 * SCALE, 200 * SCALE, SCALE>>, 1>> : u \in {"IN", "MM"}}

AtRest == ActualVal = 0 /\ Moving = "no"

parkAtRest == AtRest /\ goPark

moveLeftAtRest == AtRest /\ moveLeft

jogAtRest == AtRest /\ Jog

InitTravel ==
    \E c \in TravelConfigs : Start(c[1], c[2], c[3], c[4], DEBUGSTEP, c[5])

NextTravel ==
    \/ Tick
    \/ parkAtRest
    \/ moveLeftAtRest
    \/ jogAtRest

SpecTravel == InitTravel /\ [][NextTravel]_vars /\ WF_vars(Tick)

\* The same with the step as MachineSettings.ini gives it ('distance
\* traveled per step'), before the source overrides it with 1.0/64.0 "for
\* testing purposes": steps of 1/64, 3/64, 7/64 and 3.
StepChoices == {DEBUGSTEP, Inch(3, 64), Inch(7, 64), 3 * SCALE}

InitCalibrated ==
    \E c \in TravelConfigs : \E step \in StepChoices :
        Start(c[1], c[2], c[3], c[4], step, c[5])

SpecCalibrated == InitCalibrated /\ [][NextTravel]_vars /\ WF_vars(Tick)

\* The entry specification: keypad sessions in which every key but Enter is
\* pressed, on a travel long enough for several digits (13 inches with the
\* fraction keys up to x/16, 2 inches with all of them, 130 mm).
\* Nothing moves: the only timer is the one armed at start-up.
EntryConfigs ==
    {<<"IN", 16, 13 * SCALE, <<Inch(1, 16), Inch(1, 8), SCALE>>, 1>>,
     <<"IN", 64, 2 * SCALE, <<Inch(1, 16), Inch(1, 8), SCALE>>, 1>>,
     <<"MM", 16, 130 * SCALE, <<Inch(1, 100), Inch(5, 100), SCALE>>, 1>>}

InitEntry ==
    \E c \in EntryConfigs : Start(c[1], c[2], c[3], c[4], DEBUGSTEP, c[5])

KeyNotEnter == \E key \in KeyLabels \ {"Enter"} : padNum(key)

NextEntry ==
    \/ Tick
    \/ openKeypad
    \/ KeyNotEnter

SpecEntry == InitEntry /\ [][NextEntry]_vars

\* The position specification: setTarget called directly, as a test of the
\* position model would, with values below, inside and above a travel of 96
\* at every PRECISION.
PositionConfigs ==
    {<<"IN", p, 96 * SCALE, <<Inch(1, 16), Inch(1, 8), SCALE>>, 1>> :
        p \in {4, 8, 16, 32, 64}}
    \cup {<<"MM", 16, 96 * SCALE, <<Inch(1, 100), Inch(5, 100), SCALE>>, 1>>}

SetTargetInputs ==
    {w * SCALE + Inch(k, 64) : w \in {-5, -1, 0, 1, 95, 96, 200}, k \in 0..63}
    \cup {Inch(h, 100) : h \in {1, 5, 50, 12345, 9599, 9601}}

InitPosition ==
    \E c \in PositionConfigs : Start(c[1], c[2], c[3], c[4], DEBUGSTEP, c[5])

callSetTarget(value) ==
    /\ setTarget(value)
    /\ last' = Op("setTarget")
    /\ err' = {}
    /\ UNCHANGED <<config, CurrentJogValue, actualVars, keypadVars, Moving, timers>>

NextPosition == \E value \in SetTargetInputs : callSetTarget(value)

SpecPosition == InitPosition /\ [][NextPosition]_vars

----------------------------------------------------------------------------
(* Properties of the main specification *)

\* every key label of either keypad
AllKeys ==
    NumberLabels \cup {"Bksp", "C", ".", "Enter", "", "1/2", "x/4", "x/8", "x/16",
                       "x/32", "x/64", "Next", "Prev"}

\* self.newTargetVal when the handler of key reaches its limit check
Candidate(key) ==
    IF UNITS = "MM" THEN add_MM_num(key, TargetVal, DecimalMode).new
    ELSE add_IN_num(key, TargetVal, DecimalMode).new

\* C1: travel envelope. In every reachable state Target and Actual lie in
\* [0, ParkLocation].
C1_TravelEnvelope ==
    /\ 0 <= TargetVal /\ TargetVal <= PARKLOCATION
    /\ 0 <= ActualVal /\ ActualVal <= PARKLOCATION

\* a tick has carried Actual to the end of the travel, Target being there
C1_Witness ==
    /\ last = "MoveMotor"
    /\ ActualVal = PARKLOCATION
    /\ TargetVal = PARKLOCATION

\* C2: no overshoot per tick. A tick with latch 'lft' changes Actual only to
\* Actual + step, and only when that is <= Target and <= ParkLocation; a tick
\* with latch 'rgt' changes Actual only to Actual - step, and only when that
\* is >= Target and >= 0; a tick with latch 'no' leaves Actual alone.
C2_NoOvershootPerTick ==
    [][Tick =>
        \/ ActualVal' = ActualVal
        \/ /\ Moving = "lft"
           /\ ActualVal' = ActualVal + MOTORMOVEDEACHSTEP
           /\ ActualVal' <= TargetVal
           /\ ActualVal' <= PARKLOCATION
        \/ /\ Moving = "rgt"
           /\ ActualVal' = ActualVal - MOTORMOVEDEACHSTEP
           /\ ActualVal' >= TargetVal
           /\ ActualVal' >= 0]_vars

\* a tick has stepped left onto the target, which lies inside the travel
C2_Witness ==
    /\ last = "MoveMotor"
    /\ Moving = "lft"
    /\ ActualVal = TargetVal
    /\ 0 < TargetVal /\ TargetVal < PARKLOCATION

\* C7 as stated: in every state the display text and the numerator and
\* denominator of Target and of Actual are numFormat and setPrecision of the
\* stored value.
C7_NoStaleDisplay ==
    /\ TargetValStr = numFormat(UNITS, TargetVal)
    /\ <<TargetNumeratorStr, TargetDenominatorStr>> = setPrecision(PRECISION, TargetVal)
    /\ ActualValStr = numFormat(UNITS, ActualVal)
    /\ <<ActualNumeratorStr, ActualDenominatorStr>> = setPrecision(PRECISION, ActualVal)

\* C7 amended: the display text of Target and of Actual is always numFormat of
\* the stored value; in IN mode the numerator and denominator are setPrecision
\* of the stored value; in MM mode they are never regenerated and stay at
\* their start-up value (0, PRECISION).
C7_NoStaleDisplayByUnits ==
    /\ TargetValStr = numFormat(UNITS, TargetVal)
    /\ ActualValStr = numFormat(UNITS, ActualVal)
    /\ IF UNITS = "IN"
       THEN /\ <<TargetNumeratorStr, TargetDenominatorStr>> =
                   setPrecision(PRECISION, TargetVal)
            /\ <<ActualNumeratorStr, ActualDenominatorStr>> =
                   setPrecision(PRECISION, ActualVal)
       ELSE /\ <<TargetNumeratorStr, TargetDenominatorStr>> = <<0, PRECISION>>
            /\ <<ActualNumeratorStr, ActualDenominatorStr>> = <<0, PRECISION>>

\* in IN mode a key has set a Target and ticks have moved Actual, both with a
\* fraction on display
C7_Witness ==
    /\ UNITS = "IN"
    /\ last = "MoveMotor"
    /\ TargetNumeratorStr # 0
    /\ ActualNumeratorStr # 0
    /\ ActualVal # TargetVal

C5_HomeLatchesRight ==
    [][last' = "goHome" => (TargetVal' = 0 /\ Moving' = "rgt")]_vars

\* C5 amended: home() sets Target to 0 and leaves the latch at 'rgt', except
\* that with Actual already 0 its own MoveMotor call has reset the latch to
\* 'no' when it returns; and once home() has run, unless another command or
\* key press follows, the ticks bring Actual to 0 and the latch to 'no'.
C5_HomeArrives ==
    /\ [][last' = "goHome" =>
            /\ TargetVal' = 0
            /\ IF ActualVal = 0 THEN Moving' = "no" ELSE Moving' = "rgt"]_vars
    /\ (last = "goHome") ~>
            \/ ActualVal = 0 /\ Moving = "no"
            \/ last \notin {"goHome", "MoveMotor"}

\* a tick has stepped Actual onto 0 under the latch 'rgt' with Target 0
C5_Witness ==
    /\ last = "MoveMotor"
    /\ Moving = "rgt"
    /\ TargetVal = 0
    /\ ActualVal = 0

----------------------------------------------------------------------------
(* Properties of the travel specifications *)

C4_StopsAtPark ==
    /\ []((TargetVal = PARKLOCATION /\ Moving = "no") =>
            (ActualVal = PARKLOCATION /\ ActualVal = 96 * SCALE))
    /\ (TargetVal = PARKLOCATION) ~> (Moving = "no" /\ ActualVal = PARKLOCATION)

\* the ticks have stopped at 96 after the jog by 200
C4_Witness ==
    /\ last = "MoveMotor"
    /\ CurrentJogValue = 1
    /\ TargetVal = 96 * SCALE
    /\ ActualVal = 96 * SCALE
    /\ Moving = "no"

----------------------------------------------------------------------------
(* Properties of the position specification *)

Min(a, b) == IF a <= b THEN a ELSE b
Max(a, b) == IF a >= b THEN a ELSE b
Abs(a) == IF a >= 0 THEN a ELSE -a
Frac(value) == value - int(value)

\* C6: setTarget clamps and is idempotent. From every state, setTarget(v)
\* leaves Target = min(max(v, 0), ParkLocation), so -5 gives 0 and 200 gives
\* 96 on [0, 96], and a second setTarget(v) leaves Target and its display as
\* the first did.
C6_SetTargetClampsIdempotent ==
    \A v \in SetTargetInputs :
        LET once == setTargetResult(v, UNITS, PRECISION, PARKLOCATION, targetVars)
            twice == setTargetResult(v, UNITS, PRECISION, PARKLOCATION, once)
        IN  /\ once[1] = Min(Max(v, 0), PARKLOCATION)
            /\ v = -5 * SCALE => once[1] = 0
            /\ v = 200 * SCALE => once[1] = 96 * SCALE
            /\ twice = once

\* setTarget has left Target at the upper end of the travel [0, 96]
C6_Witness ==
    /\ last = "setTarget"
    /\ PARKLOCATION = 96 * SCALE
    /\ TargetVal = PARKLOCATION
    /\ TargetValStr = numFormat(UNITS, 96 * SCALE)

\* n/d is k/precision in lowest terms, or (0, precision) when k = 0
IsReduced(n, d, k, precision) ==
    IF k = 0 THEN n = 0 /\ d = precision
    ELSE d > 0 /\ n * precision = k * d /\ GCD(n, d) = 1

\* C8: toFraction round trip. For every k in [0, precision), setPrecision of
\* k/precision is k/precision in lowest terms ((1,2) for 0.5 at 16, (1,4) for
\* 0.25 at 8) and (0, precision) for k = 0; the same holds of the pair that
\* setTarget stores for a Target whose fraction is k/precision.
C8_ToFractionRoundTrip ==
    /\ \A k \in 0..(PRECISION - 1) :
          IsReduced(setPrecision(PRECISION, Inch(k, PRECISION))[1],
                    setPrecision(PRECISION, Inch(k, PRECISION))[2], k, PRECISION)
    /\ PRECISION = 16 => setPrecision(PRECISION, Inch(1, 2)) = <<1, 2>>
    /\ PRECISION = 8 => setPrecision(PRECISION, Inch(1, 4)) = <<1, 4>>
    /\ (UNITS = "IN" /\ (Frac(TargetVal) * PRECISION) % SCALE = 0)
          => IsReduced(TargetNumeratorStr, TargetDenominatorStr,
                       (Frac(TargetVal) * PRECISION) \div SCALE, PRECISION)

\* setTarget has stored 1 1/2 at precision 16, shown as 1/2
C8_Witness ==
    /\ UNITS = "IN"
    /\ last = "setTarget"
    /\ PRECISION = 16
    /\ TargetVal = SCALE + Inch(1, 2)
    /\ <<TargetNumeratorStr, TargetDenominatorStr>> = <<1, 2>>

\* n/d is in lowest terms, a multiple of 1/precision, and no farther from
\* frac than half of 1/precision
IsNearest(n, d, frac, precision) ==
    /\ d > 0
    /\ precision % d = 0
    /\ GCD(n, d) = 1
    /\ 2 * precision * Abs(n * SCALE - frac * d) <= d * SCALE

\* C9: toFraction rounding. For every value whose fraction is not zero (every
\* multiple of 1/64, whatever the precision), setPrecision gives the lowest
\* terms of the multiple of 1/precision nearest to the fraction; the same
\* holds of the pair that setTarget stores.
C9_ToFractionRounds ==
    /\ \A f \in 1..63 :
          IsNearest(setPrecision(PRECISION, SCALE + Inch(f, 64))[1],
                    setPrecision(PRECISION, SCALE + Inch(f, 64))[2],
                    Inch(f, 64), PRECISION)
    /\ (UNITS = "IN" /\ Frac(TargetVal) # 0)
          => IsNearest(TargetNumeratorStr, TargetDenominatorStr,
                       Frac(TargetVal), PRECISION)

\* setTarget has stored 5/64 at precision 8, shown as the nearest eighth 1/8
C9_Witness ==
    /\ UNITS = "IN"
    /\ last = "setTarget"
    /\ PRECISION = 8
    /\ TargetVal = Inch(5, 64)
    /\ <<TargetNumeratorStr, TargetDenominatorStr>> = <<1, 8>>

----------------------------------------------------------------------------
(* Properties of the keypad specification *)

\* C11: LimitExceeded keeps the accumulator. A key press that is rejected
\* with LimitExceeded leaves DecimalMode and the pending value (Target) as
\* they were before the key press.
C11_RejectKeepsAccumulator ==
    [][(last' = "padNum" /\ "LimitExceeded" \in err')
          => (DecimalMode' = DecimalMode /\ TargetVal' = TargetVal)]_vars

\* a tenths digit has been rejected in the millimeter keypad and DecimalMode
\* stands at 2 all the same
C11_Witness ==
    /\ UNITS = "MM"
    /\ last = "padNum"
    /\ "LimitExceeded" \in err
    /\ TargetVal = 0
    /\ DecimalMode = 2

\* the digit keys 0..9
Digits == {ToString(n) : n \in 0..9}

\* value is a whole multiple of unit
IsMultiple(value, unit) == value % unit = 0

\* C12: millimeter digit entry. From accumulator 0 with DecimalMode 0, an
\* integer digit d takes Target t to 10 t + d, '.' takes DecimalMode 0 to 1, a
\* tenths digit adds d/10 with DecimalMode 1 -> 2, a hundredths digit adds
\* d/100 with DecimalMode 2 -> 3, whenever the candidate is below ParkLocation;
\* so Target is d1..dn at DecimalMode 0 and 1, d1..dn.e1 at 2 and d1..dn.e1e2
\* at 3 (1,2,3 gives 123 and '.',5 gives 123.5).
C12_MillimeterDigitEntry ==
    /\ [](UNITS = "MM" =>
            /\ DecimalMode \in {0, 1} => IsMultiple(TargetVal, SCALE)
            /\ DecimalMode = 2 => IsMultiple(TargetVal, SCALE \div 10)
            /\ DecimalMode = 3 => IsMultiple(TargetVal, SCALE \div 100))
    /\ [][(UNITS = "MM" /\ last' = "padNum") =>
            \A key \in KeyLabels :
                padNum(key) =>
                    /\ (key = "." /\ DecimalMode = 0) =>
                            (DecimalMode' = 1 /\ TargetVal' = TargetVal)
                    /\ (key \in Digits /\ Candidate(key) < PARKLOCATION) =>
                            /\ DecimalMode = 0 =>
                                  /\ TargetVal' = 10 * TargetVal + IntOf(key) * SCALE
                                  /\ DecimalMode' = 0
                            /\ DecimalMode = 1 =>
                                  /\ TargetVal' = TargetVal + IntOf(key) * (SCALE \div 10)
                                  /\ DecimalMode' = 2
                            /\ DecimalMode = 2 =>
                                  /\ TargetVal' = TargetVal + IntOf(key) * (SCALE \div 100)
                                  /\ DecimalMode' = 3
                    /\ (key = "3" /\ TargetVal = 12 * SCALE /\ DecimalMode = 0) =>
                            TargetVal' = 123 * SCALE
                    /\ (key = "5" /\ TargetVal = 123 * SCALE /\ DecimalMode = 1) =>
                            TargetVal' = 123 * SCALE + SCALE \div 2]_vars

\* 1, 2, 3, '.', 5 have been pressed: Target is 123.5 and shown as 123.50
C12_Witness ==
    /\ UNITS = "MM"
    /\ last = "padNum"
    /\ err = {}
    /\ DecimalMode = 2
    /\ TargetVal = 123 * SCALE + SCALE \div 2
    /\ TargetValStr = <<"MM", 12350>>

\* C13: two decimals maximum. In the millimeter keypad with DecimalMode = 3
\* every digit key is rejected with the error 'Only two decimals allowed' and
\* leaves Target and DecimalMode unchanged.
C13_TwoDecimalsMaximum ==
    [][(UNITS = "MM" /\ DecimalMode = 3 /\ last' = "padNum") =>
          \A key \in KeyLabels \cap Digits :
              padNum(key) =>
                  /\ "TwoDecimals" \in err'
                  /\ TargetVal' = TargetVal
                  /\ TargetValStr' = TargetValStr
                  /\ DecimalMode' = 3]_vars

\* a third decimal digit has been refused after 1.23
C13_Witness ==
    /\ UNITS = "MM"
    /\ last = "padNum"
    /\ "TwoDecimals" \in err
    /\ DecimalMode = 3
    /\ TargetVal = SCALE + 23 * (SCALE \div 100)

\* the denominator tags DecimalMode holds in the inch keypad
Tags == {4, 8, 16, 32, 64}

\* C14: inch fraction entry is single-shot. While a denominator tag D is
\* active, an accepted numerator n sets Target to floor(Target) + n/D and
\* returns DecimalMode to 0, so that the next digit is a whole-number digit.
C14_FractionSingleShot ==
    [][(UNITS = "IN" /\ DecimalMode \in Tags /\ last' = "padNum") =>
          \A key \in KeyLabels \cap NumberLabels :
              (padNum(key) /\ Candidate(key) < PARKLOCATION) =>
                  /\ TargetVal' = int(TargetVal) + (IntOf(key) * SCALE) \div DecimalMode
                  /\ DecimalMode' = 0]_vars

\* 1, 2, x/16, 5 have been pressed: Target is 12 5/16, the digits are shown
\* again, and DecimalMode still holds 16
C14_Witness ==
    /\ UNITS = "IN"
    /\ last = "padNum"
    /\ keypad = "KeyPad"
    /\ TargetVal = 12 * SCALE + Inch(5, 16)
    /\ <<TargetNumeratorStr, TargetDenominatorStr>> = <<5, 16>>
    /\ DecimalMode = 16

\* C15: only odd numerators are legal. While DecimalMode holds a denominator
\* tag D, every numerator key that is accepted is odd and in [1, D-1], and
\* the fractional part it leaves in Target is below 1.
C15_OnlyOddNumerators ==
    [][(UNITS = "IN" /\ DecimalMode \in Tags /\ last' = "padNum") =>
          \A key \in KeyLabels \cap NumberLabels :
              (padNum(key) /\ Candidate(key) < PARKLOCATION) =>
                  /\ IntOf(key) % 2 = 1
                  /\ IntOf(key) \in 1..(DecimalMode - 1)
                  /\ int(TargetVal') = int(TargetVal)]_vars

\* x/4 and 1 have been pressed, then the digit 9 of the restored keypad:
\* Target is 9/4
C15_Witness ==
    /\ UNITS = "IN"
    /\ last = "padNum"
    /\ keypad = "KeyPad"
    /\ DecimalMode = 4
    /\ TargetVal = Inch(9, 4)

----------------------------------------------------------------------------
(* Properties of the commands *)

\* the selected jog increment, for a selection in 0..2
Increment == JOGVALUES[CurrentJogValue + 1]

\* C16 as stated: moveLeft sets Target to clamp(Target + increment) and
\* latches MovingLeft, moveRight sets Target to clamp(Actual - increment) and
\* latches MovingRight; neither changes Actual by more than one step of the
\* controller nor the selection.
C16_JogLatches ==
    [][(CurrentJogValue \in 0..2) =>
          /\ last' = "moveLeft" =>
                /\ TargetVal' = Min(Max(TargetVal + Increment, 0), PARKLOCATION)
                /\ Moving' = "lft"
                /\ ActualVal' \in {ActualVal, ActualVal + MOTORMOVEDEACHSTEP}
                /\ CurrentJogValue' = CurrentJogValue
          /\ last' = "moveRight" =>
                /\ TargetVal' = Min(Max(ActualVal - Increment, 0), PARKLOCATION)
                /\ Moving' = "rgt"
                /\ ActualVal' \in {ActualVal, ActualVal - MOTORMOVEDEACHSTEP}
                /\ CurrentJogValue' = CurrentJogValue]_vars

\* C16 amended: moveLeft sets Target to clamp(Target + increment), moveRight
\* to clamp(Actual - increment), and each runs the controller's step at once
\* in its direction: if the step passes the controller's test it is taken and
\* the latch is left in that direction, otherwise Actual stays and the latch
\* is left at 'no'. Neither changes the selection.
C16_JogCommands ==
    [][(CurrentJogValue \in 0..2) =>
          /\ last' = "moveLeft" =>
                /\ TargetVal' = Min(Max(TargetVal + Increment, 0), PARKLOCATION)
                /\ IF ActualVal + MOTORMOVEDEACHSTEP <= TargetVal'
                   THEN /\ Moving' = "lft"
                        /\ ActualVal' = ActualVal + MOTORMOVEDEACHSTEP
                   ELSE /\ Moving' = "no"
                        /\ ActualVal' = ActualVal
                /\ CurrentJogValue' = CurrentJogValue
          /\ last' = "moveRight" =>
                /\ TargetVal' = Min(Max(ActualVal - Increment, 0), PARKLOCATION)
                /\ IF /\ ActualVal - MOTORMOVEDEACHSTEP >= 0
                      /\ ActualVal - MOTORMOVEDEACHSTEP >= TargetVal'
                   THEN /\ Moving' = "rgt"
                        /\ ActualVal' = ActualVal - MOTORMOVEDEACHSTEP
                   ELSE /\ Moving' = "no"
                        /\ ActualVal' = ActualVal
                /\ CurrentJogValue' = CurrentJogValue]_vars

\* moveRight at Actual 1/8 with the third increment (configured 3/32, read as
\* 1/16): Target is 1/16 and the first step has been taken
C16_Witness ==
    /\ UNITS = "IN"
    /\ last = "moveRight"
    /\ CurrentJogValue = 2
    /\ Moving = "rgt"
    /\ TargetVal = Inch(1, 16)
    /\ ActualVal = Inch(7, 64)

\* the step is a press of Enter: the only key that closes the keypad
EnterPressed == last' = "padNum" /\ keypad # "closed" /\ keypad' = "closed"

\* C17 as stated: Enter leaves Target at the accumulated value, closes the
\* session and latches MovingLeft if Target > Actual, MovingRight if Target <
\* Actual, and leaves the latch alone if Target = Actual.
C17_EnterLatches ==
    [][EnterPressed =>
          /\ TargetVal' = TargetVal
          /\ TargetVal > ActualVal => Moving' = "lft"
          /\ TargetVal < ActualVal => Moving' = "rgt"
          /\ TargetVal = ActualVal => Moving' = Moving]_vars

\* C17 amended: Enter leaves Target at the accumulated value, closes the
\* session and, if Target differs from Actual, runs the controller's step at
\* once toward Target: the step is taken and the latch left in that direction
\* if it passes the controller's test, otherwise Actual stays and the latch is
\* left at 'no'. If Target = Actual neither the latch nor Actual changes.
C17_EnterStartsMotion ==
    [][EnterPressed =>
          /\ TargetVal' = TargetVal
          /\ TargetVal > ActualVal =>
                IF ActualVal + MOTORMOVEDEACHSTEP <= TargetVal
                THEN Moving' = "lft" /\ ActualVal' = ActualVal + MOTORMOVEDEACHSTEP
                ELSE Moving' = "no" /\ ActualVal' = ActualVal
          /\ TargetVal < ActualVal =>
                IF ActualVal - MOTORMOVEDEACHSTEP >= TargetVal
                THEN Moving' = "rgt" /\ ActualVal' = ActualVal - MOTORMOVEDEACHSTEP
                ELSE Moving' = "no" /\ ActualVal' = ActualVal
          /\ TargetVal = ActualVal =>
                Moving' = Moving /\ ActualVal' = ActualVal]_vars

\* '.', 1, Enter in the millimeter keypad: the session is closed, Target is
\* 0.1 and the first step toward it has been taken
C17_Witness ==
    /\ UNITS = "MM"
    /\ last = "padNum"
    /\ keypad = "closed"
    /\ Moving = "lft"
    /\ TargetVal = Inch(10, 100)
    /\ ActualVal = DEBUGSTEP

\* C18: fresh accumulator per session. At the moment a keypad session opens
\* DecimalMode is 0, whatever keys were pressed in earlier sessions.
C18_FreshAccumulator == last = "openKeypad" => DecimalMode = 0

\* '.', Enter, and the keypad opened again in millimeter mode: the new
\* session starts with DecimalMode 1
C18_Witness ==
    /\ UNITS = "MM"
    /\ last = "openKeypad"
    /\ keypad = "KeyPad"
    /\ DecimalMode = 1

\* C19: jog slot selection. From any configured start slot CurrentJogValue is
\* in {0, 1, 2} in every reachable state, and pressing jog button i sets it to
\* i without changing Target, Actual or the latch.
C19_JogSlotSelected ==
    /\ [](CurrentJogValue \in 0..2)
    /\ [][last' = "jogButtonPressed" =>
            \A i \in 0..2 :
                jogButtonPressed(i) =>
                    /\ CurrentJogValue' = i
                    /\ UNCHANGED <<TargetVal, ActualVal, Moving>>]_vars

\* StartJogValue = 5: a jog button has been pressed and CurrentJogValue is
\* still 4
C19_Witness ==
    /\ last = "jogButtonPressed"
    /\ "IndexError" \in err
    /\ CurrentJogValue = 4

----------------------------------------------------------------------------
(* Properties of the timer *)

\* C20 as stated: a tick schedules a further tick only when it committed a
\* step; a tick that resets the latch to 'no', and a tick that finds the latch
\* at 'no', schedule nothing.
C20_RearmOnlyWhileMoving ==
    [][last' = "MoveMotor" =>
          IF ActualVal' # ActualVal
          THEN timers' = timers
          ELSE timers' = timers - 1 /\ Moving' = "no"]_vars

\* C20 amended: a tick that finds the latch at 'lft' or 'rgt' schedules a
\* further tick, whether it commits a step or resets the latch to 'no'; only
\* a tick that finds the latch at 'no' changes nothing and schedules nothing.
C20_RearmUnlessIdle ==
    [][last' = "MoveMotor" =>
          IF Moving = "no"
          THEN /\ timers' = timers - 1
               /\ Moving' = "no"
               /\ ActualVal' = ActualVal
          ELSE /\ timers' = timers
               /\ \/ ActualVal' # ActualVal /\ Moving' = Moving
                  \/ ActualVal' = ActualVal /\ Moving' = "no"]_vars

\* a tick has reset the latch and scheduled a further tick: every timer that
\* was pending is pending still
C20_Witness ==
    /\ last = "MoveMotor"
    /\ Moving = "no"
    /\ timers = MaxTimers

----------------------------------------------------------------------------
(* Properties of the latch commands *)

\* the step is a latch command toward the left (Park, jog left) or toward the
\* right (Home, jog right) that ran to its end
LeftCommand == last' \in {"goPark", "moveLeft"} /\ err' = {}
RightCommand == last' \in {"goHome", "moveRight"} /\ err' = {}

\* C21 as stated: a latch command only sets the latch. When its handler
\* returns the latch is the commanded direction and Actual is unchanged.
C21_CommandOnlyLatches ==
    [][/\ LeftCommand => (Moving' = "lft" /\ ActualVal' = ActualVal)
       /\ RightCommand => (Moving' = "rgt" /\ ActualVal' = ActualVal)]_vars

\* C21 amended: a latch command sets the latch and runs one step of the
\* controller before its handler returns. If the step passes the controller's
\* test against the new Target and the travel bound, Actual has moved by one
\* step and the latch is the commanded direction; otherwise Actual is
\* unchanged and the latch is 'no'. Either way one more tick is scheduled.
C21_CommandStepsAtOnce ==
    [][/\ LeftCommand =>
            /\ IF /\ ActualVal + MOTORMOVEDEACHSTEP <= PARKLOCATION
                  /\ ActualVal + MOTORMOVEDEACHSTEP <= TargetVal'
               THEN Moving' = "lft" /\ ActualVal' = ActualVal + MOTORMOVEDEACHSTEP
               ELSE Moving' = "no" /\ ActualVal' = ActualVal
            /\ timers' = timers + 1
       /\ RightCommand =>
            /\ IF /\ ActualVal - MOTORMOVEDEACHSTEP >= 0
                  /\ ActualVal - MOTORMOVEDEACHSTEP >= TargetVal'
               THEN Moving' = "rgt" /\ ActualVal' = ActualVal - MOTORMOVEDEACHSTEP
               ELSE Moving' = "no" /\ ActualVal' = ActualVal
            /\ timers' = timers + 1]_vars

\* Park pressed at Actual 0 has returned: Actual is one step already
C21_Witness ==
    /\ last = "goPark"
    /\ Moving = "lft"
    /\ ActualVal = MOTORMOVEDEACHSTEP
    /\ TargetVal = PARKLOCATION

\* C22 as stated: a latch command issued while a tick chain runs in the other
\* direction leaves the latch at the new direction.
C22_LatchTakesDirection ==
    [][/\ (LeftCommand /\ Moving = "rgt") => Moving' = "lft"
       /\ (RightCommand /\ Moving = "lft") => Moving' = "rgt"]_vars

\* C22 amended: cancellation by overwrite. A latch command leaves the latch
\* at its own direction or at 'no', never at the other direction; a tick
\* never sets a direction, keeps Target, and moves Actual only in the
\* direction of the latch it finds and not past Target. So no tick after the
\* command moves Actual in the old direction.
C22_CancelByOverwrite ==
    [][/\ LeftCommand => Moving' \in {"lft", "no"}
       /\ RightCommand => Moving' \in {"rgt", "no"}
       /\ last' = "MoveMotor" =>
            /\ Moving' \in {Moving, "no"}
            /\ TargetVal' = TargetVal
            /\ ActualVal' > ActualVal => (Moving = "lft" /\ ActualVal' <= TargetVal)
            /\ ActualVal' < ActualVal => (Moving = "rgt" /\ ActualVal' >= TargetVal)]_vars

\* Home pressed at the end of the travel while a tick was pending: the latch
\* is 'rgt' and the first step back has been taken
C22_Witness ==
    /\ UNITS = "IN"
    /\ last = "goHome"
    /\ Moving = "rgt"
    /\ timers = 2
    /\ ActualVal = PARKLOCATION - MOTORMOVEDEACHSTEP

----------------------------------------------------------------------------
(* Properties of Backspace *)

\* What a key of the millimeter keypad leaves behind, pressed with Target
\* target and DecimalMode dm: Target and DecimalMode afterwards, and whether
\* the handler ran to its end (no exception) and stored its candidate (the
\* limit test passed).
MMKeyOutcome(key, target, dm) ==
    LET r == add_MM_num(key, target, dm)
        stored == ~r.raised /\ ~KeyLimitExceeded(r.new, PARKLOCATION)
    IN  [target |-> IF stored THEN ClampTarget(r.new, PARKLOCATION) ELSE target,
         dm |-> r.dm,
         completed |-> ~r.raised,
         accepted |-> stored /\ r.errs = {}]

\* C23: millimeter Backspace unwinds exactly one key. For every accepted
\* digit, and '.' pressed in DecimalMode 0, pressing Backspace next restores
\* Target and DecimalMode as they were before the key, and Backspace runs to
\* its end and stores its candidate.
C23_BackspaceUnwinds ==
    (UNITS = "MM" /\ keypad # "closed") =>
        \A key \in Digits \cup {"."} :
            LET k == MMKeyOutcome(key, TargetVal, DecimalMode)
                b == MMKeyOutcome("Bksp", k.target, k.dm)
            IN  (k.accepted /\ (key = "." => DecimalMode = 0)) =>
                    /\ b.target = TargetVal
                    /\ b.dm = DecimalMode
                    /\ b.completed

\* 1, 2, '.', Backspace: the handler has ended in an AttributeError
C23_Witness ==
    /\ UNITS = "MM"
    /\ last = "padNum"
    /\ "AttributeError" \in err
    /\ DecimalMode = 0
    /\ TargetVal = 12 * SCALE

----------------------------------------------------------------------------
(* Properties of inch whole-number entry *)

\* C25: inch whole-number entry shifts left like millimeter entry. With
\* DecimalMode 0 an accepted digit d turns the integer part n of Target into
\* 10 n + d, also when Target carries a fraction.
C25_InchLeftShift ==
    [][(UNITS = "IN" /\ DecimalMode = 0 /\ last' = "padNum") =>
          \A key \in KeyLabels \cap Digits :
              (padNum(key) /\ Candidate(key) < PARKLOCATION) =>
                  int(TargetVal') = 10 * int(TargetVal) + IntOf(key) * SCALE]_vars

\* 1/2 and then 3 have been pressed from Target 0: Target is 8
C25_Witness ==
    /\ UNITS = "IN"
    /\ last = "padNum"
    /\ keypad = "KeyPad"
    /\ err = {}
    /\ DecimalMode = 0
    /\ TargetVal = 8 * SCALE

----------------------------------------------------------------------------
(* Properties of the tick chain *)

\* C26: single tick chain. Under any interleaving of commands, Enter and
\* ticks at most one MoveMotor timer is pending.
C26_SingleTickChain == timers <= 1

\* a tick has stepped left while a second timer is pending: two chains are
\* driving the same motion
C26_Witness ==
    /\ last = "MoveMotor"
    /\ Moving = "lft"
    /\ ActualVal > 0
    /\ timers = 2

\* C27: motion terminates. If from some point on no command is given and no
\* key is pressed, so that only ticks happen, then under fair firing of the
\* pending ticks the latch ends at 'no' and no timer stays pending.
C27_MotionTerminates ==
    <>[][Tick]_vars => <>[](Moving = "no" /\ timers = 0)

\* the motion to the end of the travel is over and the last timer has fired
C27_Witness ==
    /\ last = "MoveMotor"
    /\ Moving = "no"
    /\ timers = 0
    /\ ActualVal = PARKLOCATION
    /\ TargetVal = PARKLOCATION

----------------------------------------------------------------------------
(* Properties of the position reached *)

C29_StopMeansArrived ==
    [][(Moving \in {"lft", "rgt"} /\ Moving' = "no") =>
          Abs(TargetVal' - ActualVal') < MOTORMOVEDEACHSTEP]_vars

\* a jog left has ended with the latch at 'no' and Actual a step or more
\* beyond Target
C29_Witness ==
    /\ last = "moveLeft"
    /\ err = {}
    /\ Moving = "no"
    /\ ActualVal - TargetVal >= MOTORMOVEDEACHSTEP

\* C30: in inch mode the displayed fraction of Target and of Actual is proper:
\* 0 <= numerator < denominator <= PRECISION, and the denominator is PRECISION
\* whenever the numerator is 0.  setPrecision breaks both parts: a fraction
\* that rounds up to a whole gives 1/1, one that rounds down to nothing gives 0/1.
ProperFraction(n, d) ==
    /\ 0 <= n
    /\ n < d
    /\ d <= PRECISION
    /\ (n = 0 => d = PRECISION)

C30_FractionIsProper ==
    UNITS = "IN" =>
        /\ ProperFraction(TargetNumeratorStr, TargetDenominatorStr)
        /\ ProperFraction(ActualNumeratorStr, ActualDenominatorStr)

C30_Witness ==
    /\ UNITS = "IN"
    /\ PRECISION = 16
    /\ last = "setTarget"
    /\ err = {}
    /\ TargetVal = 95 * SCALE + Inch(63, 64)
    /\ TargetNumeratorStr = 1
    /\ TargetDenominatorStr = 1

\* the keys that compute no new candidate value: self.newTargetVal stays
\* TargetVal in their branch of add_MM_num / add_IN_num
NoCandidateKeys ==
    {"", ".", "x/4", "x/8", "x/16", "x/32", "x/64", "Next", "Prev", "Enter"}

\* C31: a key press that computes no new candidate value (blank, '.', a
\* fraction-denominator selector, Next/Prev, Enter) never reports
\* LimitExceeded.  The limit check at the end of both handlers runs for every
\* key, on the unchanged TargetVal, so it fires once Target is ParkLocation.
C31_NoSpuriousLimit ==
    [][(\E key \in NoCandidateKeys : padNum(key))
           => "LimitExceeded" \notin err']_vars

C31_Witness ==
    /\ last = "padNum"
    /\ keypad = "closed"
    /\ "LimitExceeded" \in err
    /\ TargetVal = PARKLOCATION
    /\ ActualVal = PARKLOCATION
    /\ Moving = "no"

====
